---- MODULE Spec2Model ----
(***************************************************************************)
(* UniTrade order execution service ("The Executor").                      *)
(*                                                                         *)
(* The service is one single-threaded event loop.  Every handler runs      *)
(* without interruption up to its next `await`; the continuation after an  *)
(* `await` is a separate step that may interleave with any other handler.  *)
(* The in-flight continuations are the bag `tasks`; one action of the      *)
(* model is one such uninterrupted run of code.                            *)
(***************************************************************************)
EXTENDS Integers, Sequences, FiniteSets, Bags, TLC

VARIABLES
  orderLocks,       \* this.orderLocks: the set of locked order ids
  badOrderMap,      \* this.badOrderMap: order id -> failed gas estimates (0: absent)
  pools,            \* this.pools: market -> [exists, orders (id -> orderState)]
  poolListeners,    \* this.poolListeners: market -> a Sync subscription is registered
  orderListeners,   \* this.orderListeners: the order-lifecycle streams with a subscription
  failedTxnTimer,   \* this.failedTxnTimer: id of the last timer set (0: null)
  failedTxnCount,   \* this.failedTxnCount
  failedTxnGasCost, \* this.failedTxnGasCost
  timers,           \* the pending setTimeout callbacks, oldest first (same delay: FIFO)
  tasks,            \* bag of suspended async continuations
  exited,           \* process.exit has been called
  exitCode,         \* the code it was called with
  config            \* the environment configuration, fixed at start

vars == <<orderLocks, badOrderMap, pools, poolListeners, orderListeners,
          failedTxnTimer, failedTxnCount, failedTxnGasCost, timers, tasks,
          exited, exitCode, config>>

(***************************************************************************)
(* Bounds of the model.                                                    *)
(***************************************************************************)
MaxTasks == 2    \* an event is delivered only while fewer continuations are suspended
MaxBad == 2      \* cap of one order's badOrderMap counter
MaxTimers == 3   \* cap of the pending reset timers
MaxFailures == 4 \* cap of failedTxnCount

(***************************************************************************)
(* Enumerations of lib/types.ts.                                           *)
(***************************************************************************)
Success == 0
GenericError == 1
TooManyFailures == 2
TooMuchGasLost == 3

Placed == 0
Cancelled == 1
Executed == 2

OrderStates == {Placed, Cancelled, Executed}

(***************************************************************************)
(* The environment: orders, markets and what the collaborators answer.     *)
(***************************************************************************)
OrderIds == {1, 2}
Markets == {"A", "B"}

\* uniSwap.getPairAddress(order.tokenIn, order.tokenOut): orders 1 and 2 trade
\* the same pair, order 3 another one.
getPairAddress(id) == IF id = 3 THEN "B" ELSE "A"

\* event.returnValues.orderState of an OrderPlaced event
EventStates(id) == IF id = 1 THEN {Placed, Cancelled} ELSE {Placed, Executed}

\* order.executorFee
executorFee(id) == 100

\* ethGasStation.getEstimatedGasForOrder: 0 stands for no usable estimate
GasEstimates == {0, 40, 50, 60}
\* ethGasStation.getPreferredGasPrice: 0 stands for no price
GasPrices == {0, 2}

\* the orders whose gas cannot be estimated (.env.example line 23: "usually only
\* an issue for orders that involve bad ERC20 tokens")
BadTokenOrders == {1}

\* err.receipt of a failed executeOrder; gasUsed is read only when hasGas
Receipts ==
  { [present |-> FALSE, hasGas |-> FALSE, gasUsed |-> 0],
    [present |-> TRUE,  hasGas |-> FALSE, gasUsed |-> 0],
    [present |-> TRUE,  hasGas |-> TRUE,  gasUsed |-> 1] }

\* what executeOrder does: resolves truthy, resolves falsy, or rejects
ExecOutcomes == {"ok", "falsy", "throw"}

\* web3.eth.getTransactionReceipt: null, status true, status false
ReceiptLookups == {"null", "ok", "failed"}

\* the keys of this.orderListeners
OrderStreams == {"OrderPlaced", "OrderCancelled", "OrderExecuted"}

(***************************************************************************)
(* Helpers on bags, pools and tasks.                                       *)
(***************************************************************************)
One(e) == SetToBag({e})

Running == ~exited

NoPool == [exists |-> FALSE, orders |-> <<>>]

\* new TokenPool(pairAddress)
NewPool == [exists |-> TRUE, orders |-> <<>>]

\* TokenPool.getOrderCount
getOrderCount(pool) == Cardinality(DOMAIN pool.orders)

\* TokenPool.addOrder
addOrder(pool, id, st) ==
  [pool EXCEPT !.orders = [k \in (DOMAIN pool.orders) \cup {id} |->
                             IF k = id THEN st ELSE pool.orders[k]]]

\* TokenPool.removeOrder
removeOrder(pool, id) ==
  [pool EXCEPT !.orders = [k \in (DOMAIN pool.orders) \ {id} |-> pool.orders[k]]]

Min(S) == CHOOSE x \in S : \A y \in S : x <= y

RECURSIVE SortedSeq(_)
\* Object.keys of an object with integer-like keys: ascending
SortedSeq(S) == IF S = {} THEN <<>> ELSE <<Min(S)>> \o SortedSeq(S \ {Min(S)})

\* evicted: the evaluation has called removePoolOrder at line 199
Task(kind, pc, id, st, market, keys) ==
  [kind |-> kind, pc |-> pc, id |-> id, st |-> st, market |-> market,
   keys |-> keys, gas |-> 0, price |-> 0, result |-> FALSE, code |-> 0,
   evicted |-> FALSE]

TaskSet == BagToSet(tasks)

(***************************************************************************)
(* executeIfAppropriate, entry: lines 166-179 run without suspension.      *)
(***************************************************************************)
\* line 167 without the check of the lock
IsLockedNever(id) == FALSE

\* line 167
IsLocked(id) == id \in orderLocks

\* line 172 without the check of the order state
IsActiveAlways(st) == TRUE

\* line 172
IsActive(st) == st = Placed

EvalProceeds(id, st) == ~IsLocked(id) /\ IsActive(st)

\* the continuation the call leaves behind: suspended in isInTheMoney with the
\* lock taken, or the caller's await of the returned false
StartEval(kind, id, st, market, keys) ==
  IF EvalProceeds(id, st)
    THEN Task(kind, "itm", id, st, market, keys)
    ELSE Task(kind, "ret", id, st, market, keys)

\* lockOrder
lockOrder(locks, id) == locks \cup {id}

\* unlockOrder
unlockOrder(locks, id) == locks \ {id}

(***************************************************************************)
(* handleShutdown and handleFailedExecution.                               *)
(***************************************************************************)
\* line 70: the webhook is awaited only for an exit code above GenericError
Notifies(code) == code > GenericError /\ config.webhook

\* line 258 with > for >=
CountTrippedAbove(cnt) == cnt > config.maxFailureCount

\* line 258
CountTripped(cnt) == cnt >= config.maxFailureCount

\* line 264
CostTripped(cost) == cost >= config.maxFailureGasCost

\* line 273 without the check of the active timer
SetsTimerAlways == TRUE

\* line 273
SetsTimer == failedTxnTimer = 0 \/ config.resetTimerOnFailure

\* line 247: receipt.gasUsed || 0
GasUsedOr0(r) == IF r.hasGas THEN r.gasUsed ELSE 0

\* the exit codes handleFailedExecution hands to handleError, in order
ShutdownCodes(cnt, cost) ==
  (IF CountTripped(cnt) THEN <<TooManyFailures>> ELSE <<>>) \o
  (IF CostTripped(cost) THEN <<TooMuchGasLost>> ELSE <<>>)

FailureCodes(r) ==
  IF r.present
    THEN ShutdownCodes(failedTxnCount + 1, failedTxnGasCost + GasUsedOr0(r))
    ELSE <<>>

\* handleFailedExecution ends the process before it returns
FailureExits(r) == FailureCodes(r) # <<>> /\ ~Notifies(Head(FailureCodes(r)))

\* the handleShutdown calls left suspended in the webhook's fetch
NotifyTasks(r) ==
  LET codes == FailureCodes(r)
      note(c) == [Task("notify", "fetch", 0, Placed, "A", <<>>) EXCEPT !.code = c]
  IN  IF codes = <<>> \/ FailureExits(r) THEN EmptyBag
      ELSE IF Len(codes) = 1 THEN One(note(codes[1]))
      ELSE One(note(codes[1])) (+) One(note(codes[2]))

FreshTimer == Min((1..(Len(timers) + 1)) \ {timers[i] : i \in 1..Len(timers)})

\* lines 271-282
StartTimer ==
  IF SetsTimer
    THEN /\ failedTxnTimer' = FreshTimer
         /\ timers' = Append(timers, FreshTimer)
    ELSE UNCHANGED <<failedTxnTimer, timers>>

\* lines 50-68 of handleShutdown: every listener is removed
RemoveListeners ==
  /\ poolListeners' = [m \in Markets |-> FALSE]
  /\ orderListeners' = {}

\* process.exit: the process and all it held in memory are gone
processExit(code) ==
  /\ exited' = TRUE
  /\ exitCode' = code
  /\ orderLocks' = {}
  /\ badOrderMap' = [id \in OrderIds |-> 0]
  /\ pools' = [m \in Markets |-> NoPool]
  /\ RemoveListeners
  /\ failedTxnTimer' = 0
  /\ timers' = <<>>
  /\ tasks' = EmptyBag
  /\ UNCHANGED config

\* handleFailedExecution(receipt), lines 243-262, when the handleShutdown it
\* calls reaches process.exit at line 84 without suspension
FailureExit(r) ==
  /\ failedTxnCount' = failedTxnCount + 1
  /\ failedTxnGasCost' = failedTxnGasCost + GasUsedOr0(r)
  /\ processExit(Head(FailureCodes(r)))

\* handleFailedExecution(receipt), lines 243-283, otherwise: each handleShutdown
\* it calls is left suspended in the webhook's fetch
handleFailedExecution(r) ==
  IF ~r.present
    THEN UNCHANGED <<failedTxnCount, failedTxnGasCost, failedTxnTimer, timers,
                     poolListeners, orderListeners>>
    ELSE /\ failedTxnCount' = failedTxnCount + 1
         /\ failedTxnGasCost' = failedTxnGasCost + GasUsedOr0(r)
         /\ IF FailureCodes(r) = <<>>
              THEN UNCHANGED <<poolListeners, orderListeners>>
              ELSE RemoveListeners
         /\ StartTimer

\* the failures the model lets the environment produce
FailureAllowed == failedTxnCount < MaxFailures /\ Len(timers) < MaxTimers

\* the timer callback of lines 275-280
TimerFire ==
  /\ Running
  /\ timers # <<>>
  /\ failedTxnCount' = 0
  /\ failedTxnGasCost' = 0
  /\ failedTxnTimer' = 0
  /\ timers' = Tail(timers)
  /\ UNCHANGED <<orderLocks, badOrderMap, pools, poolListeners, orderListeners,
                 tasks, exited, exitCode, config>>

\* handleShutdown resumed after the webhook's fetch: line 84, or 87 when it threw
NotifyDone(t, ok) ==
  /\ Running
  /\ t \in TaskSet /\ t.kind = "notify"
  /\ processExit(IF ok THEN t.code ELSE GenericError)
  /\ UNCHANGED <<failedTxnCount, failedTxnGasCost>>

(***************************************************************************)
(* executeIfAppropriate, after the lock is taken.                          *)
(***************************************************************************)
breakerVars == <<failedTxnTimer, failedTxnCount, failedTxnGasCost, timers>>
listenerVars == <<poolListeners, orderListeners>>
exitVars == <<exited, exitCode>>

\* one continuation is resumed and leaves the bag `left` behind
Resume(t, left) == tasks' = (tasks (-) One(t)) (+) left

Returns(t, result) == [t EXCEPT !.pc = "ret", !.result = result]

\* line 216 with lte for lt
CostNotAboveFee(gas, price, fee) == gas * price <= fee

\* lines 214-216: toBN(estimatedGas).mul(toBN(gasPrice)).lt(toBN(order.executorFee))
CostBelowFee(gas, price, fee) == gas * price < fee

\* lines 202-216: a usable estimate, a usable price and a fee above the cost
Attempts(id, gas, price) ==
  gas # 0 /\ price # 0 /\ CostBelowFee(gas, price, executorFee(id))

\* lines 202-235 with the estimate in hand: suspended in executeOrder with the
\* lock held, or unlocked and returning false
AfterEstimate(t, gas, price) ==
  IF Attempts(t.id, gas, price)
    THEN [t EXCEPT !.pc = "exec", !.gas = gas, !.price = price]
    ELSE Returns(t, FALSE)

\* lines 224-235 without the unlockOrder of line 234
LocksAfterEstimateKept(t, gas, price) == orderLocks

LocksAfterEstimate(t, gas, price) ==
  IF Attempts(t.id, gas, price) THEN orderLocks ELSE unlockOrder(orderLocks, t.id)

\* line 197 with >= for >
EvictsAtCeiling(count) == count >= config.badOrderRetry

\* line 197
Evicts(count) == count > config.badOrderRetry

\* the call of removePoolOrder / addPoolOrder, suspended in getPairAddress
RemoveTask(id) == Task("remove", "pair", id, Placed, getPairAddress(id), <<>>)
AddTask(id, st) == Task("add", "pair", id, st, getPairAddress(id), <<>>)

\* line 181 resumes with the answer of isInTheMoney; with ESTIMATED_GAS_OVERRIDE
\* set, lines 186-235 follow without suspension
IsInTheMoneyResult(t, inTheMoney, price) ==
  /\ Running
  /\ t \in TaskSet /\ t.pc = "itm"
  /\ IF ~inTheMoney
       THEN /\ Resume(t, One(Returns(t, FALSE)))
            /\ orderLocks' = unlockOrder(orderLocks, t.id)
       ELSE IF config.estimatedGasOverride # 0
         THEN /\ Resume(t, One(AfterEstimate(t, config.estimatedGasOverride, price)))
              /\ orderLocks' = LocksAfterEstimate(t, config.estimatedGasOverride, price)
         ELSE /\ Resume(t, One([t EXCEPT !.pc = "gas"]))
              /\ UNCHANGED orderLocks
  /\ UNCHANGED <<badOrderMap, pools, listenerVars, breakerVars, exitVars, config>>

\* line 188 resumes with an estimate: lines 189, 202-235
GasEstimateResult(t, gas, price) ==
  /\ Running
  /\ t \in TaskSet /\ t.pc = "gas"
  /\ Resume(t, One(AfterEstimate(t, gas, price)))
  /\ orderLocks' = LocksAfterEstimate(t, gas, price)
  /\ UNCHANGED <<badOrderMap, pools, listenerVars, breakerVars, exitVars, config>>

\* line 188 throws: lines 190-206
GasEstimateThrows(t) ==
  /\ Running
  /\ t \in TaskSet /\ t.pc = "gas"
  /\ t.id \in BadTokenOrders
  /\ badOrderMap[t.id] < MaxBad
  /\ badOrderMap' = [badOrderMap EXCEPT ![t.id] = @ + 1]
  /\ Resume(t, One([Returns(t, FALSE) EXCEPT !.evicted = Evicts(badOrderMap[t.id] + 1)]) (+)
               (IF Evicts(badOrderMap[t.id] + 1) THEN One(RemoveTask(t.id)) ELSE EmptyBag))
  /\ orderLocks' = unlockOrder(orderLocks, t.id)
  /\ UNCHANGED <<pools, listenerVars, breakerVars, exitVars, config>>

\* line 218 with an unlockOrder before the return of the resolved result
ExecuteOrderResultUnlocks(t, outcome, r) ==
  /\ Running
  /\ t \in TaskSet /\ t.pc = "exec"
  /\ IF outcome # "throw"
       THEN /\ Resume(t, One(Returns(t, outcome = "ok")))
            /\ orderLocks' = unlockOrder(orderLocks, t.id)
            /\ UNCHANGED <<badOrderMap, pools, listenerVars, breakerVars,
                           exitVars, config>>
       ELSE /\ r.present => FailureAllowed
            /\ IF FailureExits(r)
                 THEN FailureExit(r)
                 ELSE /\ handleFailedExecution(r)
                      /\ Resume(t, One(Returns(t, FALSE)) (+) NotifyTasks(r))
                      /\ orderLocks' = unlockOrder(orderLocks, t.id)
                      /\ UNCHANGED <<badOrderMap, pools, exitVars, config>>

\* line 218 resumes: executeOrder resolved (truthy or falsy) or rejected with
\* err.receipt = r (lines 219-223)
ExecuteOrderResult(t, outcome, r) ==
  /\ Running
  /\ t \in TaskSet /\ t.pc = "exec"
  /\ IF outcome # "throw"
       THEN /\ Resume(t, One(Returns(t, outcome = "ok")))
            /\ UNCHANGED <<orderLocks, badOrderMap, pools, listenerVars,
                           breakerVars, exitVars, config>>
       ELSE /\ r.present => FailureAllowed
            /\ IF FailureExits(r)
                 THEN FailureExit(r)
                 ELSE /\ handleFailedExecution(r)
                      /\ Resume(t, One(Returns(t, FALSE)) (+) NotifyTasks(r))
                      /\ orderLocks' = unlockOrder(orderLocks, t.id)
                      /\ UNCHANGED <<badOrderMap, pools, exitVars, config>>

\* a rejection no catch receives: the promise of executeIfAppropriate and the
\* promise of the handler awaiting it reject, nothing after the throw runs.
\* What the runtime does with the unhandled rejection depends on its version:
\* it warns and goes on, or it ends the process with code 1.
Rejected(t, exits) ==
  IF exits
    THEN /\ processExit(GenericError)
         /\ UNCHANGED <<failedTxnCount, failedTxnGasCost>>
    ELSE /\ Resume(t, EmptyBag)
         /\ UNCHANGED <<orderLocks, badOrderMap, pools, listenerVars, breakerVars,
                        exitVars, config>>

\* line 181 resumes with isInTheMoney rejected: no try encloses the await
IsInTheMoneyThrows(t, exits) ==
  /\ Running
  /\ t \in TaskSet /\ t.pc = "itm"
  /\ Rejected(t, exits)

\* line 188 resumes with a usable estimate and getPreferredGasPrice throws at
\* line 207: no try encloses the call
GasPriceThrows(t, exits) ==
  /\ Running
  /\ t \in TaskSet /\ t.pc = "gas"
  /\ Rejected(t, exits)

(***************************************************************************)
(* Pool operations.                                                        *)
(***************************************************************************)
\* addPoolOrder with a getOrCreatePool that does not call
\* createPoolChangeListener (line 127)
AddPoolOrderNoListener(t) ==
  /\ Running
  /\ t \in TaskSet /\ t.kind = "add"
  /\ pools' = [pools EXCEPT ![t.market] =
                 addOrder(IF @.exists THEN @ ELSE NewPool, t.id, t.st)]
  /\ Resume(t, EmptyBag)
  /\ UNCHANGED <<orderLocks, badOrderMap, listenerVars, breakerVars, exitVars, config>>

\* addPoolOrder resumed after getPairAddress: getOrCreatePool (lines 124-130,
\* which calls createPoolChangeListener up to its first await) and addOrder
AddPoolOrder(t) ==
  /\ Running
  /\ t \in TaskSet /\ t.kind = "add"
  /\ pools' = [pools EXCEPT ![t.market] =
                 addOrder(IF @.exists THEN @ ELSE NewPool, t.id, t.st)]
  /\ Resume(t, IF pools[t.market].exists THEN EmptyBag
               ELSE One(Task("subscribe", "sync", 0, Placed, t.market, <<>>)))
  /\ UNCHANGED <<orderLocks, badOrderMap, listenerVars, breakerVars, exitVars, config>>

\* lines 156-160 without the check of line 158: removeOrder of an undefined
\* pool throws, and the catch of line 161 shuts the service down
RemovePoolOrderUnchecked(t) ==
  /\ Running
  /\ t \in TaskSet /\ t.kind = "remove"
  /\ IF pools[t.market].exists
       THEN /\ pools' = [pools EXCEPT ![t.market] = removeOrder(@, t.id)]
            /\ Resume(t, EmptyBag)
            /\ UNCHANGED <<orderLocks, badOrderMap, listenerVars, breakerVars,
                           exitVars, config>>
       ELSE /\ processExit(GenericError)
            /\ UNCHANGED <<failedTxnCount, failedTxnGasCost>>

\* removePoolOrder resumed after getPairAddress: lines 156-160
RemovePoolOrder(t) ==
  /\ Running
  /\ t \in TaskSet /\ t.kind = "remove"
  /\ pools' = [pools EXCEPT ![t.market] =
                 IF @.exists THEN removeOrder(@, t.id) ELSE @]
  /\ Resume(t, EmptyBag)
  /\ UNCHANGED <<orderLocks, badOrderMap, listenerVars, breakerVars, exitVars, config>>

\* createPoolChangeListener resumed with the subscription: lines 293-327
SubscribeDone(t) ==
  /\ Running
  /\ t \in TaskSet /\ t.kind = "subscribe" /\ t.pc = "sync"
  /\ poolListeners' = [poolListeners EXCEPT ![t.market] = TRUE]
  /\ Resume(t, EmptyBag)
  /\ UNCHANGED <<orderLocks, badOrderMap, pools, orderListeners, breakerVars,
                 exitVars, config>>

(***************************************************************************)
(* The OrderPlaced handler: lines 346-356.                                 *)
(***************************************************************************)
OrderPlacedEvent(id, st) ==
  /\ Running /\ "OrderPlaced" \in orderListeners
  /\ BagCardinality(tasks) < MaxTasks
  /\ tasks' = tasks (+) One(StartEval("placed", id, st, getPairAddress(id), <<>>))
  /\ orderLocks' = IF EvalProceeds(id, st) THEN lockOrder(orderLocks, id) ELSE orderLocks
  /\ UNCHANGED <<badOrderMap, pools, listenerVars, breakerVars, exitVars, config>>

\* line 350 resumes with the result: lines 351-354
ReturnToPlaced(t) ==
  /\ Running
  /\ t \in TaskSet /\ t.kind = "placed" /\ t.pc = "ret"
  /\ Resume(t, IF ~t.result THEN One(AddTask(t.id, t.st)) ELSE EmptyBag)
  /\ UNCHANGED <<orderLocks, badOrderMap, pools, listenerVars, breakerVars,
                 exitVars, config>>

(***************************************************************************)
(* The Sync (price tick) handler: lines 294-317.                           *)
(***************************************************************************)
\* line 297
SyncTeardown(pool) == ~pool.exists \/ getOrderCount(pool) = 0

RECURSIVE LoopTasks(_, _, _)
\* lines 304-307 from the key at the head of ks, with the pools as they are
\* now: orders that are gone are passed over; the first one still there is
\* handed to executeIfAppropriate.  Reading the orders of a pool that has been
\* deleted throws in the handler, which ends it.
LoopTasks(P, m, ks) ==
  IF ks = <<>> \/ ~P[m].exists THEN {}
  ELSE IF Head(ks) \notin DOMAIN P[m].orders THEN LoopTasks(P, m, Tail(ks))
  ELSE {StartEval("tick", Head(ks), P[m].orders[Head(ks)], m, Tail(ks))}

LocksAfterLoop(new) == orderLocks \cup {t.id : t \in {x \in new : x.pc = "itm"}}

SyncEvent(m) ==
  /\ Running /\ poolListeners[m]
  /\ BagCardinality(tasks) < MaxTasks
  /\ IF SyncTeardown(pools[m])
       THEN /\ poolListeners' = [poolListeners EXCEPT ![m] = FALSE]
            /\ pools' = [pools EXCEPT ![m] = NoPool]
            /\ UNCHANGED <<tasks, orderLocks>>
       ELSE LET new == LoopTasks(pools, m, SortedSeq(DOMAIN pools[m].orders))
            IN  /\ tasks' = tasks (+) SetToBag(new)
                /\ orderLocks' = LocksAfterLoop(new)
                /\ UNCHANGED <<pools, poolListeners>>
  /\ UNCHANGED <<badOrderMap, orderListeners, breakerVars, exitVars, config>>

\* line 307 resumes with the result: lines 309-312, then the loop goes on
ReturnToTick(t) ==
  /\ Running
  /\ t \in TaskSet /\ t.kind = "tick" /\ t.pc = "ret"
  /\ LET P == IF t.result /\ pools[t.market].exists
                THEN [pools EXCEPT ![t.market] = removeOrder(@, t.id)]
                ELSE pools
         new == LoopTasks(P, t.market, t.keys)
     IN  /\ pools' = P
         /\ Resume(t, SetToBag(new))
         /\ orderLocks' = LocksAfterLoop(new)
  /\ UNCHANGED <<badOrderMap, listenerVars, breakerVars, exitVars, config>>

\* line 307 resumes and the loop goes on to line 305 with the pool deleted:
\* this.pools[pairAddress] is undefined and reading its orders throws a
\* TypeError in the handler.  ReturnToTick is the runtime that warns of the
\* unhandled rejection and goes on; this is the runtime that ends the process.
PoolDereferenceThrows(t) ==
  /\ Running
  /\ t \in TaskSet /\ t.kind = "tick" /\ t.pc = "ret"
  /\ t.keys # <<>> /\ ~pools[t.market].exists
  /\ processExit(GenericError)
  /\ UNCHANGED <<failedTxnCount, failedTxnGasCost>>

(***************************************************************************)
(* The OrderCancelled and OrderExecuted handlers.                          *)
(***************************************************************************)
\* lines 400 and 470
TeardownCond(pool) == ~pool.exists \/ getOrderCount(pool) # 0

\* lines 390-398: removePoolOrder is called and not awaited
OrderCancelledEvent(id) ==
  /\ Running /\ "OrderCancelled" \in orderListeners
  /\ BagCardinality(tasks) < MaxTasks
  /\ tasks' = tasks (+) One(RemoveTask(id))
                    (+) One(Task("cancelled", "pair", id, Placed, getPairAddress(id), <<>>))
  /\ UNCHANGED <<orderLocks, badOrderMap, pools, listenerVars, breakerVars,
                 exitVars, config>>

\* lines 442-446
OrderExecutedEvent(id) ==
  /\ Running /\ "OrderExecuted" \in orderListeners
  /\ BagCardinality(tasks) < MaxTasks
  /\ tasks' = tasks (+) One(Task("executed", "receipt", id, Placed, getPairAddress(id), <<>>))
  /\ UNCHANGED <<orderLocks, badOrderMap, pools, listenerVars, breakerVars,
                 exitVars, config>>

\* event.transactionHash handed to handleFailedExecution at line 461: a string,
\* which has no gasUsed
HashAsReceipt == [present |-> TRUE, hasGas |-> FALSE, gasUsed |-> 0]

\* line 444 resumes with the receipt: lines 460-469
ReceiptResult(t, lookup) ==
  /\ Running
  /\ t \in TaskSet /\ t.kind = "executed" /\ t.pc = "receipt"
  /\ IF lookup = "failed"
       THEN /\ FailureAllowed
            /\ IF FailureExits(HashAsReceipt)
                 THEN FailureExit(HashAsReceipt)
                 ELSE /\ handleFailedExecution(HashAsReceipt)
                      /\ Resume(t, NotifyTasks(HashAsReceipt))
                      /\ UNCHANGED <<orderLocks, badOrderMap, pools, exitVars, config>>
       ELSE /\ Resume(t, One(RemoveTask(t.id)) (+) One([t EXCEPT !.pc = "pair"]))
            /\ UNCHANGED <<orderLocks, badOrderMap, pools, listenerVars,
                           breakerVars, exitVars, config>>

\* lines 398 and 469 resume with the pair address: lines 400-406, 470-476
TeardownCheck(t) ==
  /\ Running
  /\ t \in TaskSet /\ t.kind \in {"cancelled", "executed"} /\ t.pc = "pair"
  /\ IF TeardownCond(pools[t.market])
       THEN /\ poolListeners' = [poolListeners EXCEPT ![t.market] = FALSE]
            /\ pools' = [pools EXCEPT ![t.market] = NoPool]
       ELSE UNCHANGED <<pools, poolListeners>>
  /\ Resume(t, EmptyBag)
  /\ UNCHANGED <<orderLocks, badOrderMap, orderListeners, breakerVars, exitVars,
                 config>>

(***************************************************************************)
(* The streams' error and end events, and the process signals.             *)
(***************************************************************************)
Streams == OrderStreams \cup Markets

\* the stream has a subscription whose handlers are registered
Listening(s) == IF s \in Markets THEN poolListeners[s] ELSE s \in orderListeners

\* line 37: if (exitCode)
handleErrorShuts(code) == code # Success

\* handleShutdown(exitCode) up to its first suspension: the listeners are
\* removed; the webhook's fetch is awaited (line 73) or the process exits
handleShutdown(code) ==
  IF Notifies(code)
    THEN /\ RemoveListeners
         /\ tasks' = tasks (+) One([Task("notify", "fetch", 0, Placed, "A", <<>>)
                                      EXCEPT !.code = code])
         /\ UNCHANGED <<orderLocks, badOrderMap, pools, breakerVars, exitVars, config>>
    ELSE /\ processExit(code)
         /\ UNCHANGED <<failedTxnCount, failedTxnGasCost>>

\* handleError(error, exitCode)
handleError(code) ==
  IF handleErrorShuts(code) THEN handleShutdown(code) ELSE UNCHANGED vars

\* an "end" handler that drops the subscription and asks for no new one
OrderStreamEndSilent(s) ==
  /\ Running /\ s \in orderListeners
  /\ BagCardinality(tasks) < MaxTasks
  /\ orderListeners' = orderListeners \ {s}
  /\ UNCHANGED <<orderLocks, badOrderMap, pools, poolListeners, breakerVars,
                 tasks, exitVars, config>>

\* the "end" handlers of the order streams (lines 363-366, 415-418, 485-488):
\* the listener is created again; its old subscription is dropped at lines
\* 340-343 and the new one is awaited at line 345
OrderStreamEnd(s) ==
  /\ Running /\ s \in orderListeners
  /\ BagCardinality(tasks) < MaxTasks
  /\ orderListeners' = orderListeners \ {s}
  /\ tasks' = tasks (+) One(Task("subscribe", s, 0, Placed, "A", <<>>))
  /\ UNCHANGED <<orderLocks, badOrderMap, pools, poolListeners, breakerVars,
                 exitVars, config>>

\* the "end" handler of a market's Sync stream (lines 324-327):
\* createPoolChangeListener is called again and suspends at line 291
PoolStreamEnd(m) ==
  /\ Running /\ poolListeners[m]
  /\ BagCardinality(tasks) < MaxTasks
  /\ tasks' = tasks (+) One(Task("subscribe", "sync", 0, Placed, m, <<>>))
  /\ UNCHANGED <<orderLocks, badOrderMap, pools, listenerVars, breakerVars,
                 exitVars, config>>

\* an "error" handler that does what the "end" handler does
StreamErrorStreamLocal(s) ==
  IF s \in Markets THEN PoolStreamEnd(s) ELSE OrderStreamEnd(s)

\* the "error" handlers of lines 321-323, 360-362, 412-414, 482-484
StreamError(s) ==
  /\ Running /\ Listening(s)
  /\ handleError(GenericError)

\* lines 345, 384, 436 resume with the new subscription
SubscribeOrderDone(t) ==
  /\ Running
  /\ t \in TaskSet /\ t.kind = "subscribe" /\ t.pc \in OrderStreams
  /\ orderListeners' = orderListeners \cup {t.pc}
  /\ Resume(t, EmptyBag)
  /\ UNCHANGED <<orderLocks, badOrderMap, pools, poolListeners, breakerVars,
                 exitVars, config>>

\* SIGINT or SIGTERM (lines 98-103): handleShutdown with the default exit code
Signal ==
  /\ Running
  /\ handleShutdown(Success)

(***************************************************************************)
(* Specifications.                                                         *)
(***************************************************************************)
Config(orders, retry, maxCount, maxCost, reset, webhook, override) ==
  [orders |-> orders, badOrderRetry |-> retry, maxFailureCount |-> maxCount,
   maxFailureGasCost |-> maxCost, resetTimerOnFailure |-> reset,
   webhook |-> webhook, estimatedGasOverride |-> override]

\* the state once start() has run with no open order listed
InitWith(configs) ==
  /\ orderLocks = {}
  /\ badOrderMap = [id \in OrderIds |-> 0]
  /\ pools = [m \in Markets |-> NoPool]
  /\ poolListeners = [m \in Markets |-> FALSE]
  /\ orderListeners = OrderStreams
  /\ failedTxnTimer = 0
  /\ failedTxnCount = 0
  /\ failedTxnGasCost = 0
  /\ timers = <<>>
  /\ tasks = EmptyBag
  /\ exited = FALSE
  /\ exitCode = Success
  /\ config \in configs

\* BAD_ORDER_RETRY=1 and MAX_FAILURE_COUNT=1: the first recorded failure ends the
\* process, so that no reset timer is ever set and no webhook is awaited
Init == InitWith({Config({1, 2}, 1, 1, 1, FALSE, FALSE, 0)})

Next ==
  \/ \E id \in config.orders : \E st \in EventStates(id) : OrderPlacedEvent(id, st)
  \/ \E id \in config.orders : OrderCancelledEvent(id)
  \/ \E id \in config.orders : OrderExecutedEvent(id)
  \/ \E m \in Markets : SyncEvent(m)
  \/ \E t \in TaskSet, b \in BOOLEAN, p \in GasPrices : IsInTheMoneyResult(t, b, p)
  \/ \E t \in TaskSet, g \in GasEstimates, p \in GasPrices : GasEstimateResult(t, g, p)
  \/ \E t \in TaskSet : GasEstimateThrows(t)
  \/ \E t \in TaskSet, o \in ExecOutcomes, r \in Receipts : ExecuteOrderResult(t, o, r)
  \/ \E t \in TaskSet : ReturnToPlaced(t)
  \/ \E t \in TaskSet : ReturnToTick(t)
  \/ \E t \in TaskSet : AddPoolOrder(t)
  \/ \E t \in TaskSet : RemovePoolOrder(t)
  \/ \E t \in TaskSet : SubscribeDone(t)
  \/ \E t \in TaskSet, l \in ReceiptLookups : ReceiptResult(t, l)
  \/ \E t \in TaskSet : TeardownCheck(t)

Spec == Init /\ [][Next]_vars

\* the circuit breaker with a failure window: one order, MAX_FAILURE_COUNT=3,
\* MAX_FAILURE_GAS_COST 2 or 3, RESET_TIMER_ON_FAILURE unset, no webhook
InitBreaker ==
  InitWith({Config({1}, 1, 3, c, FALSE, FALSE, 0) : c \in {2, 3}})

NextBreaker ==
  \/ Next
  \/ TimerFire

SpecBreaker == InitBreaker /\ [][NextBreaker]_vars

\* the gas arbitration: one order, ESTIMATED_GAS_OVERRIDE unset, 40 or 50
InitGas ==
  InitWith({Config({1}, 1, 3, 3, FALSE, FALSE, o) : o \in {0, 40, 50}})

SpecGas == InitGas /\ [][NextBreaker]_vars

\* the tick loop on a runtime that ends the process on an unhandled rejection
NextTicks ==
  \/ Next
  \/ \E t \in TaskSet : PoolDereferenceThrows(t)

SpecTicks == Init /\ [][NextTicks]_vars

\* the lookups of an evaluation may throw: one order, ESTIMATED_GAS_OVERRIDE
\* unset
InitLookups ==
  InitWith({Config({1}, 1, 3, 3, FALSE, FALSE, 0)})

NextLookups ==
  \/ NextBreaker
  \/ \E t \in TaskSet, e \in BOOLEAN : IsInTheMoneyThrows(t, e)
  \/ \E t \in TaskSet, e \in BOOLEAN : GasPriceThrows(t, e)

SpecLookups == InitLookups /\ [][NextLookups]_vars

\* the streams' error and end events and the signals: one order,
\* MAX_FAILURE_COUNT=2, the webhook configured or not
InitFaults ==
  InitWith({Config({1}, 1, 2, 3, FALSE, w, 0) : w \in BOOLEAN})

NextFaults ==
  \/ NextBreaker
  \/ \E s \in Streams : StreamError(s)
  \/ \E s \in OrderStreams : OrderStreamEnd(s)
  \/ \E m \in Markets : PoolStreamEnd(m)
  \/ \E t \in TaskSet : SubscribeOrderDone(t)
  \/ \E t \in TaskSet, ok \in BOOLEAN : NotifyDone(t, ok)
  \/ Signal

SpecFaults == InitFaults /\ [][NextFaults]_vars

\* a subscription request that has been issued is answered: the continuation
\* awaiting it (lines 293, 345, 384, 436) is resumed by the event loop
SubscribeTask(s) ==
  IF s \in Markets THEN Task("subscribe", "sync", 0, Placed, s, <<>>)
  ELSE Task("subscribe", s, 0, Placed, "A", <<>>)

FairSubscriptions ==
  /\ \A s \in OrderStreams : WF_vars(SubscribeOrderDone(SubscribeTask(s)))
  /\ \A m \in Markets : WF_vars(SubscribeDone(SubscribeTask(m)))

SpecLive == SpecFaults /\ FairSubscriptions

RECURSIVE ListedPools(_, _)
\* the pools start() fills from the order listing (lines 517-522): addPoolOrder
\* for each listed order, all of them Placed
ListedPools(P, listed) ==
  IF listed = {} THEN P
  ELSE LET id == Min(listed)
           mk == getPairAddress(id)
       IN  ListedPools([P EXCEPT ![mk] = addOrder(IF @.exists THEN @ ELSE NewPool,
                                                  id, Placed)],
                       listed \ {id})

\* the state once start() has run with the orders `listed` open: their pools
\* are filled, the Sync subscription of each pool, which getOrCreatePool does
\* not await, is still being established, the order streams are open
InitStartup ==
  /\ \E listed \in {{}, {1}}, w \in BOOLEAN :
       /\ config = [listed |-> listed] @@ Config({1, 2}, 1, 1, 1, FALSE, w, 0)
       /\ pools = ListedPools([m \in Markets |-> NoPool], listed)
       /\ tasks = SetToBag({SubscribeTask(getPairAddress(id)) : id \in listed})
  /\ orderLocks = {}
  /\ badOrderMap = [id \in OrderIds |-> 0]
  /\ poolListeners = [m \in Markets |-> FALSE]
  /\ orderListeners = OrderStreams
  /\ failedTxnTimer = 0
  /\ failedTxnCount = 0
  /\ failedTxnGasCost = 0
  /\ timers = <<>>
  /\ exited = FALSE
  /\ exitCode = Success

SpecStartup == InitStartup /\ [][NextFaults]_vars

\* the failure window with RESET_TIMER_ON_FAILURE=true: one order,
\* MAX_FAILURE_COUNT=3
InitReset ==
  InitWith({Config({1}, 1, 3, 3, TRUE, FALSE, 0)})

SpecReset == InitReset /\ [][NextBreaker]_vars

(***************************************************************************)
(* Properties.                                                             *)
(***************************************************************************)
\* the evaluations of order id that hold a collaborator call open: they are
\* past the lock acquisition of line 179 and have not returned
InFlight(id) ==
  {t \in TaskSet : t.kind \in {"placed", "tick"} /\ t.id = id
                   /\ t.pc \in {"itm", "gas", "exec"}}

\* the step leaves one more copy of continuation x suspended
Spawned(x) == CopiesIn(x, tasks') > CopiesIn(x, tasks)

Tracked(m) == IF pools[m].exists THEN DOMAIN pools[m].orders ELSE {}

\* C1: at any instant at most one evaluation of an order id is past the lock
\* acquisition (so at most one executeOrder call per order id is open), and
\* it holds the lock; an evaluation that found the id locked is none of them:
\* it has returned false and waits on no collaborator.
C1_AtMostOneEvaluationPastLock ==
  \A id \in OrderIds :
    /\ \A t \in InFlight(id) : CopiesIn(t, tasks) = 1 /\ InFlight(id) = {t}
    /\ InFlight(id) # {} => id \in orderLocks

\* C1 witness: two ticks of one market overlap on the same order; one is in
\* executeOrder, the other was turned away at the lock and returned false
C1_Witness ==
  \E t1 \in TaskSet, t2 \in TaskSet :
    /\ t1.kind = "tick" /\ t2.kind = "tick" /\ t1.id = t2.id
    /\ t1.pc = "exec"
    /\ t2.pc = "ret" /\ ~t2.result /\ t2.st = Placed

\* C2: every open executeOrder call was made with estimatedGas * gasPrice
\* strictly below the order's executorFee; and an estimate (from the gas
\* station or from ESTIMATED_GAS_OVERRIDE) whose cost is equal to or above the
\* fee never leaves an executeOrder call behind.
C2_ExecutionOnlyBelowFee ==
  [][ /\ \A t \in BagToSet(tasks') :
           t.pc = "exec" => t.gas * t.price < executorFee(t.id)
      /\ \A t \in TaskSet, g \in GasEstimates, p \in GasPrices :
           GasEstimateResult(t, g, p) /\ g * p >= executorFee(t.id)
             => \A x \in BagToSet(tasks') : x.pc = "exec" => ~Spawned(x)
      /\ \A t \in TaskSet, p \in GasPrices :
           /\ IsInTheMoneyResult(t, TRUE, p)
           /\ config.estimatedGasOverride * p >= executorFee(t.id)
           => \A x \in BagToSet(tasks') : x.pc = "exec" => ~Spawned(x)
    ]_vars

\* C2 witness: an executeOrder call is open, made at cost 80 for fee 100
C2_Witness ==
  \E t \in TaskSet : t.pc = "exec" /\ t.gas * t.price = 80 /\ executorFee(t.id) = 100

\* the variables an evaluation could touch besides its own continuation
EvalFrame ==
  UNCHANGED <<orderLocks, badOrderMap, pools, poolListeners, orderListeners,
              failedTxnTimer, failedTxnCount, failedTxnGasCost, timers,
              exited, exitCode>>

\* C3: an evaluation of an order that is Cancelled or Executed returns false
\* and changes nothing: on an OrderPlaced event, and on a tick whose next
\* order is not Placed, the only change is the caller now awaiting the false
\* result; no continuation of such an order ever waits on a collaborator.
C3_NonPlacedEvaluationHasNoEffect ==
  [][ /\ \A id \in OrderIds, st \in OrderStates \ {Placed} :
           OrderPlacedEvent(id, st)
             => /\ EvalFrame
                /\ tasks' = tasks (+) One(Task("placed", "ret", id, st, getPairAddress(id), <<>>))
      /\ \A m \in Markets :
           SyncEvent(m) /\ ~SyncTeardown(pools[m])
             => LET ks == SortedSeq(DOMAIN pools[m].orders)
                    st == pools[m].orders[Head(ks)]
                IN  st # Placed
                      => /\ EvalFrame
                         /\ tasks' = tasks (+) One(Task("tick", "ret", Head(ks), st, m, Tail(ks)))
      /\ \A t \in BagToSet(tasks') :
           t.kind \in {"placed", "tick"} /\ t.st # Placed => t.pc = "ret" /\ ~t.result
    ]_vars

\* C3 witness: a tick has evaluated a tracked order that is not Placed
C3_Witness ==
  \E t \in TaskSet : t.kind = "tick" /\ t.st # Placed /\ t.pc = "ret"

\* C4: a failed gas estimate asks for the order's removal from its pool exactly
\* when the order's failure count, this failure included, is strictly above
\* the retry ceiling: with ceiling N failures 1..N do not, failure N+1 does.
C4_EvictionOnlyAboveCeiling ==
  [][ \A t \in TaskSet :
        GasEstimateThrows(t)
          => /\ badOrderMap'[t.id] = badOrderMap[t.id] + 1
             /\ Spawned(RemoveTask(t.id)) <=> badOrderMap'[t.id] > config.badOrderRetry
    ]_vars

\* C4 witness: the failure after the ceiling has asked for the eviction of a
\* tracked order
C4_Witness ==
  \E t \in TaskSet :
    /\ t.kind = "tick" /\ t.pc = "ret" /\ ~t.result
    /\ badOrderMap[t.id] = config.badOrderRetry + 1
    /\ t.id \in Tracked(t.market)
    /\ RemoveTask(t.id) \in TaskSet

\* the step starts a shutdown with this exit code
ShutdownTriggered(code) ==
  \/ ~exited /\ exited' /\ exitCode' = code
  \/ \E x \in BagToSet(tasks') : x.kind = "notify" /\ x.code = code /\ Spawned(x)

\* the step records a failure in the circuit breaker
FailureRecorded == ~exited /\ failedTxnCount' = failedTxnCount + 1

\* C5: a recorded failure starts a shutdown with TooManyFailures exactly when
\* the count it leaves has reached MAX_FAILURE_COUNT, and nothing else starts
\* one: with the maximum 3 the third failure does, the first two do not.
C5_TooManyFailuresAtMaxCount ==
  [][ /\ FailureRecorded
           => (ShutdownTriggered(TooManyFailures)
                 <=> failedTxnCount' >= config.maxFailureCount)
      /\ ShutdownTriggered(TooManyFailures) => FailureRecorded
    ]_vars

\* C5 witness: the third failure of a window ended the process with
\* TooManyFailures
C5_Witness ==
  /\ exited /\ exitCode = TooManyFailures
  /\ failedTxnCount = 3 /\ config.maxFailureCount = 3

\* C6: with RESET_TIMER_ON_FAILURE unset, a failure recorded while a timer is
\* active leaves the timer reference and the pending timer as they are; when
\* the timer fires both counters are zero and no timer is left.
C6_WindowNotExtended ==
  [][ ~config.resetTimerOnFailure =>
        /\ FailureRecorded /\ failedTxnTimer # 0 /\ ~exited'
             => UNCHANGED <<failedTxnTimer, timers>>
        /\ TimerFire
             => /\ failedTxnCount' = 0 /\ failedTxnGasCost' = 0
                /\ failedTxnTimer' = 0 /\ timers' = <<>>
    ]_vars

\* C6 witness: a second failure was recorded while the first one's timer is
\* still the only pending one
C6_Witness ==
  /\ ~config.resetTimerOnFailure /\ ~exited
  /\ failedTxnCount = 2 /\ failedTxnTimer # 0 /\ Len(timers) = 1

\* C7 (as claimed): the teardown check of an order-cancelled or order-executed
\* handler keeps every other tracked order of the market, and keeps the
\* market's subscription while the pool is not empty.
C7_OtherOrdersStayTracked ==
  [][ \A t \in TaskSet :
        TeardownCheck(t)
          => /\ Tracked(t.market) \ {t.id} \subseteq
                  (IF pools'[t.market].exists THEN DOMAIN pools'[t.market].orders ELSE {})
             /\ poolListeners[t.market] /\ Tracked(t.market) \ {t.id} # {}
                  => poolListeners'[t.market]
    ]_vars

\* C8 (as claimed): when the teardown check of an order-cancelled or
\* order-executed handler runs after the order's removal has left the pool
\* empty, and nothing else is in flight, the market leaves the registry.
C8_EmptyPoolLeavesRegistry ==
  [][ \A t \in TaskSet :
        /\ TeardownCheck(t)
        /\ tasks = One(t)
        /\ pools[t.market].exists /\ getOrderCount(pools[t.market]) = 0
        => ~pools'[t.market].exists
    ]_vars

\* C9: removePoolOrder for an order that is not tracked (no pool for its
\* market, or a pool without it) changes nothing but ending itself: the pools,
\* the locks, the retry counters, the listeners and the breaker are as they
\* were, and the process has not exited.
C9_RemovingUntrackedIsNoOp ==
  [][ \A t \in TaskSet :
        RemovePoolOrder(t) /\ t.id \notin Tracked(t.market)
          => /\ UNCHANGED <<pools, orderLocks, badOrderMap, poolListeners,
                            orderListeners, failedTxnTimer, failedTxnCount,
                            failedTxnGasCost, timers, exited, exitCode>>
             /\ tasks' = tasks (-) One(t)
    ]_vars

\* C9 witness: a removal is pending for an order that the pool of its market,
\* which tracks another order, does not hold
C9_Witness ==
  \E t \in TaskSet : /\ t.kind = "remove" /\ pools[t.market].exists
                      /\ Tracked(t.market) # {}
                      /\ t.id \notin Tracked(t.market)

\* C10: in the OrderPlaced handler an estimate whose cost is not below the fee
\* (60 * 2 = 120 against 100) leaves no executeOrder call, releases the lock
\* and returns false; the false result has the order inserted into its
\* market's pool; a tick that comes to a tracked, Placed, unlocked order takes
\* the lock and evaluates it; at cost 40 * 2 = 80 executeOrder is called.
C10_HeldOrderIsPooledAndReevaluated ==
  [][ /\ \A t \in TaskSet, g \in GasEstimates \ {0}, p \in GasPrices \ {0} :
           GasEstimateResult(t, g, p) /\ t.kind = "placed"
             => IF g * p >= executorFee(t.id)
                  THEN /\ Spawned(Returns(t, FALSE))
                       /\ t.id \notin orderLocks'
                       /\ \A x \in BagToSet(tasks') : x.pc # "exec" \/ x.id # t.id
                  ELSE Spawned([t EXCEPT !.pc = "exec", !.gas = g, !.price = p])
      /\ \A t \in TaskSet :
           ReturnToPlaced(t) /\ ~t.result => Spawned(AddTask(t.id, t.st))
      /\ \A t \in TaskSet :
           AddPoolOrder(t)
             => /\ pools'[t.market].exists
                /\ t.id \in DOMAIN pools'[t.market].orders
                /\ pools'[t.market].orders[t.id] = t.st
      /\ \A m \in Markets :
           SyncEvent(m) /\ ~SyncTeardown(pools[m])
             => LET id == Head(SortedSeq(DOMAIN pools[m].orders))
                IN  pools[m].orders[id] = Placed /\ id \notin orderLocks
                      => /\ id \in orderLocks'
                         /\ \E x \in BagToSet(tasks') :
                              x.kind = "tick" /\ x.id = id /\ x.pc = "itm" /\ Spawned(x)
    ]_vars

\* C10 witness: an order held back by the OrderPlaced handler (its execution
\* was not attempted: it is not locked) is in its pool and a tick is
\* evaluating it
C10_Witness ==
  \E t \in TaskSet :
    /\ t.kind = "tick" /\ t.pc = "itm" /\ t.id = 2
    /\ t.id \in Tracked(t.market)
    /\ badOrderMap[t.id] = 0

\* C11 (as claimed): an evaluation whose profitability, gas-estimate or
\* gas-price lookup throws or yields nothing usable ends with the service
\* running and the order's lock released.
C11_FailedLookupReleasesLock ==
  [][ \A t \in TaskSet :
        \/ \E e \in BOOLEAN : IsInTheMoneyThrows(t, e) \/ GasPriceThrows(t, e)
        \/ GasEstimateThrows(t)
        \/ \E p \in GasPrices : IsInTheMoneyResult(t, FALSE, p)
        \/ \E p \in GasPrices : GasEstimateResult(t, 0, p)
        \/ \E g \in GasEstimates : GasEstimateResult(t, g, 0)
        => ~exited' /\ t.id \notin orderLocks'
    ]_vars

\* the handlers of one subscription handle that have not completed
HandlersInFlight(kind, m) ==
  {t \in TaskSet : t.kind = kind /\ (kind = "tick" => t.market = m)}

\* C12 (as claimed): of one subscription handle (a market's Sync stream, the
\* OrderPlaced, OrderCancelled or OrderExecuted stream) at most one handler
\* is in flight at any instant.
C12_OneHandlerPerHandle ==
  \A kind \in {"tick", "placed", "cancelled", "executed"}, m \in Markets :
    /\ Cardinality(HandlersInFlight(kind, m)) <= 1
    /\ \A t \in HandlersInFlight(kind, m) : CopiesIn(t, tasks) = 1

\* C13: an error event on any stream ends the process with GenericError; an
\* end event on a stream ends nothing and starts no shutdown: the listeners
\* of the other streams stay and a new subscription is awaited.
C13_StreamErrorIsFatalEndIsNot ==
  [][ /\ \A s \in Streams :
           StreamError(s) => exited' /\ exitCode' = GenericError
      /\ \A s \in OrderStreams :
           OrderStreamEnd(s)
             => /\ ~exited' /\ orderListeners' = orderListeners \ {s}
                /\ poolListeners' = poolListeners
                /\ \A x \in BagToSet(tasks') : x.kind = "notify" => ~Spawned(x)
                /\ Spawned(Task("subscribe", s, 0, Placed, "A", <<>>))
      /\ \A m \in Markets :
           PoolStreamEnd(m)
             => /\ ~exited' /\ UNCHANGED <<orderListeners, poolListeners>>
                /\ \A x \in BagToSet(tasks') : x.kind = "notify" => ~Spawned(x)
                /\ Spawned(Task("subscribe", "sync", 0, Placed, m, <<>>))
    ]_vars

\* C13 witness: with no webhook configured and no failure recorded, the
\* process has ended with GenericError: a stream's error event did it
C13_Witness ==
  /\ exited /\ exitCode = GenericError
  /\ ~config.webhook /\ failedTxnCount = 0 /\ failedTxnGasCost = 0

\* C14 (as claimed): with the webhook configured, the process ends with a
\* fatal exit code only from a handleShutdown that has attempted the
\* notification; with the Success code it ends without one.
C14_FatalExitAfterNotification ==
  [][ /\ ~exited /\ exited' /\ config.webhook /\ exitCode' # Success
           => \E t \in TaskSet : t.kind = "notify"
      /\ Signal => \A x \in BagToSet(tasks') : x.kind = "notify" => ~Spawned(x)
    ]_vars

\* C15 (as claimed): at most one reset timer is pending, and the timer
\* reference is null exactly when none is.
C15_AtMostOneTimerPending ==
  /\ Len(timers) <= 1
  /\ failedTxnTimer = 0 <=> timers = <<>>

\* C16 (as claimed): with RESET_TIMER_ON_FAILURE=true the counters are zeroed
\* only by the timer that the most recent recorded failure has set.
C16_OnlyLatestTimerZeroes ==
  [][ config.resetTimerOnFailure /\ TimerFire => Head(timers) = failedTxnTimer ]_vars

\* C17 (as claimed): every failed execution handed to handleFailedExecution,
\* by a rejected executeOrder with or without a receipt and by an
\* OrderExecuted event with a failed receipt, adds 1 to failedTxnCount and
\* the failure's gasUsed (0 when absent) to failedTxnGasCost.
C17_EveryForwardedFailureCounts ==
  [][ /\ \A t \in TaskSet, r \in Receipts :
           ExecuteOrderResult(t, "throw", r)
             => /\ failedTxnCount' = failedTxnCount + 1
                /\ failedTxnGasCost' = failedTxnGasCost + GasUsedOr0(r)
      /\ \A t \in TaskSet :
           ReceiptResult(t, "failed") => failedTxnCount' = failedTxnCount + 1
    ]_vars

\* C18 (as claimed): an evaluation that held the lock and returns false has
\* released the lock when it returns.
C18_FalseReturnReleasesLock ==
  [][ \A x \in BagToSet(tasks') :
        /\ Spawned(x)
        /\ x.kind \in {"placed", "tick"} /\ x.pc = "ret" /\ ~x.result
        /\ \E t \in InFlight(x.id) : CopiesIn(t, tasks') < CopiesIn(t, tasks)
        => x.id \notin orderLocks'
    ]_vars

\* C19 (as claimed): the OrderPlaced handler whose evaluation has evicted the
\* order does not go on to insert the order into its market's pool.
C19_EvictedOrderIsNotPooledAgain ==
  [][ \A t \in TaskSet :
        ReturnToPlaced(t) /\ t.evicted => ~Spawned(AddTask(t.id, t.st))
    ]_vars

\* C20 (as claimed): a successful gas estimate for an order starts its
\* bad-order count again.
C20_SuccessfulEstimateRestartsCount ==
  [][ \A t \in TaskSet, g \in GasEstimates \ {0}, p \in GasPrices :
        GasEstimateResult(t, g, p) => badOrderMap'[t.id] = 0
    ]_vars

\* the service is running and no handleShutdown is waiting for the webhook
NotShuttingDown == Running /\ \A t \in TaskSet : t.kind # "notify"

\* C21: an end event of a stream re-issues the subscription request for that
\* very stream, every time it happens; an order stream left without
\* subscription while the service is not shutting down is eventually
\* subscribed again, and so is a market whose request is pending (or the
\* service shuts down).
C21_DisconnectedStreamIsSubscribedAgain ==
  /\ [][ /\ \A s \in OrderStreams :
              OrderStreamEnd(s) => Spawned(SubscribeTask(s))
         /\ \A m \in Markets :
              PoolStreamEnd(m) => Spawned(SubscribeTask(m))
         /\ \A t \in TaskSet :
              SubscribeOrderDone(t) => t.pc \in orderListeners'
       ]_vars
  /\ \A s \in OrderStreams :
       (NotShuttingDown /\ s \notin orderListeners)
         ~> (s \in orderListeners \/ ~NotShuttingDown)
  /\ \A m \in Markets :
       (NotShuttingDown /\ SubscribeTask(m) \in TaskSet)
         ~> (poolListeners[m] \/ ~NotShuttingDown)

\* C21 witness: the OrderPlaced stream has ended and its new subscription is
\* awaited, while the Sync stream of a market with a tracked order has ended
\* too and is awaited as well
C21_Witness ==
  /\ NotShuttingDown
  /\ "OrderPlaced" \notin orderListeners
  /\ SubscribeTask("OrderPlaced") \in TaskSet
  /\ SubscribeTask("A") \in TaskSet /\ Tracked("A") # {}

\* C22: while the service is not shutting down, every market whose pool holds
\* a tracked order has a Sync subscription registered or a subscription
\* request pending, for the pools of the order listing at startup and for the
\* pools created by later OrderPlaced events.
C22_TrackedMarketHasSubscription ==
  NotShuttingDown =>
    \A m \in Markets :
      Tracked(m) # {} => poolListeners[m] \/ SubscribeTask(m) \in TaskSet

\* C22 witness: no order was listed at startup; a pool created by an
\* OrderPlaced event holds an order and its subscription is being established
C22_Witness ==
  /\ NotShuttingDown /\ config.listed = {}
  /\ Tracked("A") # {} /\ ~poolListeners["A"]
  /\ SubscribeTask("A") \in TaskSet

\* C23 (as claimed): a tick handler that resumes from an evaluation with
\* orders left in its loop finds the market's pool in place, so that the read
\* of the pool's orders at line 305 is a read of an existing pool.
C23_TickLoopReadsExistingPool ==
  [][ \A t \in TaskSet :
        (ReturnToTick(t) \/ PoolDereferenceThrows(t)) /\ t.keys # <<>>
          => pools[t.market].exists
    ]_vars

\* an execution attempt of order id has returned success to its caller
ExecutionSucceeded(id) ==
  \E t \in TaskSet : t.kind \in {"placed", "tick"} /\ t.id = id
                     /\ t.pc = "ret" /\ t.result

\* C24: from the moment an execution attempt of an order id has returned
\* success, for as long as the process lives the id stays locked and no
\* evaluation of it is past the lock: no executeOrder call is made for it
\* again, whatever ticks and OrderPlaced events follow.
C24_NoAttemptAfterSuccess ==
  \A id \in OrderIds :
    [](ExecutionSucceeded(id)
         => [](exited \/ (id \in orderLocks /\ InFlight(id) = {})))

\* C24 witness: a tick's execution of an order has returned success, the
\* order is locked, and an OrderPlaced event for the same order has been
\* turned away
C24_Witness ==
  \E t \in TaskSet, x \in TaskSet :
    /\ t.kind = "tick" /\ t.pc = "ret" /\ t.result /\ t.id \in orderLocks
    /\ x.kind = "placed" /\ x.id = t.id /\ x.st = Placed
    /\ x.pc = "ret" /\ ~x.result

====
